---- MODULE Spec2Model ----
\* Room/session coordination core of find-the-impostor:
\* src/server/room-manager.ts (RoomManager, second definition, lines 173-532)
\* and src/server/socket-handler.ts (the socket.io request handlers).
EXTENDS Integers, Sequences, FiniteSets, TLC

\* ---------------------------------------------------------------- bounds
MaxSockets == 3         \* socket ids 1..MaxSockets
MaxSteps == 5           \* requests that are answered with success or have no answer
MaxImpostorReq == 3     \* impostorCount values a client sends: 0..MaxImpostorReq
MaxSweepPlayers == 2     \* roster size of the rooms SweepSpec sweeps
MaxAgeMinutes == 60      \* the age limit the interval timer passes to cleanupOldRooms
MaxJoinPlayers == 2      \* roster size of the rooms JoinSpec joins
MaxTallyPlayers == 4    \* roster size of the rooms whose votes TallySpec tallies

Sockets == 1..MaxSockets
NoId == 0
Codes == {"R1"}
NoCode == ""
\* every client calls itself by one name of its own
NameOf(s) == ToString(s)
Phases == {"setup", "wordreveal", "discussion", "voting", "results"}
\* the difficulty the clients play at, other than the default of a new room
Difficulties == {"hard"}
Undefined == <<>>
Some(v) == <<v>>

\* ---------------------------------------------------------------- state
VARIABLES
  rooms,    \* RoomManager.rooms: code -> RoomData (domain = the live codes)
  socks,    \* per socket: open, ExtendedSocket.roomCode/playerId, socket.io rooms joined
  reply,    \* success flag of the last acknowledgement callback
  emits,    \* events emitted by the last request, in order
  steps     \* number of requests processed so far, failed ones not counted

vars == <<rooms, socks, reply, emits, steps>>

\* ---------------------------------------------------------------- Map<string, Player> as a sequence in insertion order
Has(ps, id) == \E i \in DOMAIN ps : ps[i].id = id
IndexOf(ps, id) == CHOOSE i \in DOMAIN ps : ps[i].id = id
Get(ps, id) == ps[IndexOf(ps, id)]
MapSet(ps, id, p) == IF Has(ps, id) THEN [ps EXCEPT ![IndexOf(ps, id)] = p] ELSE Append(ps, p)
MapDelete(ps, id) == SelectSeq(ps, LAMBDA p : p.id # id)
Min(a, b) == IF a < b THEN a ELSE b
OrOne(k) == IF k = 0 THEN 1 ELSE k
Perms(n) == {f \in [1..n -> 1..n] : \A i, j \in 1..n : f[i] = f[j] => i = j}

Impostors(ps) == {i \in DOMAIN ps : ps[i].role = "impostor"}
Ordinary(ps) == {i \in DOMAIN ps : ps[i].role = "player"}

NewPlayer(id, name) ==
  [id |-> id, name |-> name, role |-> "player", isConnected |-> TRUE,
   hasRevealed |-> FALSE, wins |-> 0]

\* An element of gameState.players is either the very object held by the
\* roster Map under the same id (shared = TRUE) or an object of its own.
Entry(p, sh) ==
  [id |-> p.id, name |-> p.name, role |-> p.role, isConnected |-> p.isConnected,
   hasRevealed |-> p.hasRevealed, wins |-> p.wins, shared |-> sh]

\* Writes to a roster object show through every array element that is that object.
Alias(room) ==
  [room EXCEPT !.gameState.players =
     [i \in DOMAIN @ |->
        IF @[i].shared /\ Has(room.players, @[i].id)
          THEN Entry(Get(room.players, @[i].id), TRUE)
          ELSE [@[i] EXCEPT !.shared = FALSE]]]

\* ---------------------------------------------------------------- socket.io plumbing
\* io.in(c) reaches every socket that joined c; socket.to(c) all of them but the sender
InRoom(c) == {s \in Sockets : socks[s].open /\ c \in socks[s].joined}
ToAll == NoId
Emit(e, c, except) == [event |-> e, room |-> c, except |-> except, message |-> ""]
EmitMsg(e, c, except, m) == [event |-> e, room |-> c, except |-> except, message |-> m]
Bind(s, c) ==
  [socks EXCEPT ![s].roomCode = c, ![s].playerId = s, ![s].joined = @ \cup {c}, ![s].fresh = FALSE]
\* Socket ids are fresh names: among the sockets that never entered a room the
\* lowest-numbered one acts first.
Active(s) ==
  /\ steps < MaxSteps
  /\ socks[s].open
  /\ socks[s].fresh => \A t \in 1..(s - 1) : ~socks[t].fresh
Count == steps' = steps + 1
Ack(ok, es) == reply' = ok /\ emits' = es /\ Count
Fail == reply' = FALSE /\ emits' = <<>> /\ UNCHANGED <<rooms, socks, steps>>

\* ---------------------------------------------------------------- RoomManager
PutRoom(rs, c, room) == [d \in DOMAIN rs \cup {c} |-> IF d = c THEN room ELSE rs[d]]
\* a registry that keeps the room: what C4 rules out for a leaving host
deleteRoomKept(rs, c) == rs
deleteRoom(rs, c) == [d \in DOMAIN rs \ {c} |-> rs[d]]

\* new Date(), in minutes: the requests of Spec are all served at one instant,
\* time passes only between the requests and the sweep of SweepSpec
Epoch == 0

\* a generator without the loop: what C26 rules out
generateRoomCodeOnce(rs, codes) == codes
\* do { code = random } while (this.rooms.has(code)): the codes the loop can
\* return, out of the codes the generator draws from
generateRoomCode(rs, codes) == codes \ DOMAIN rs

createRoom(c, hostId, hostName) ==
  [code |-> c, hostId |-> hostId,
   createdAt |-> Epoch, lastActivityAt |-> Epoch,
   players |-> <<NewPlayer(hostId, hostName)>>,
   gameState |-> [phase |-> "setup", players |-> <<>>, impostorCount |-> 1,
                  difficulty |-> "medium",
                  gameStarted |-> FALSE, hostId |-> hostId,
                  startingPlayerId |-> NoId, votes |-> <<>>,
                  votingResults |-> Undefined, winners |-> Undefined]]

\* joinRoom returns null when the room is missing or the game has started
\* a join test on the phase instead of the started flag: what C37 rules out
joinRoomOkInSetup(rs, c) == c \in DOMAIN rs /\ rs[c].gameState.phase = "setup"
joinRoomOk(rs, c) == c \in DOMAIN rs /\ ~rs[c].gameState.gameStarted

\* a join that stores a new entry under an id already in the roster: what C27 rules out
joinRoomReplaces(rs, c, playerId, playerName) ==
  PutRoom(rs, c, Alias([rs[c] EXCEPT !.players = MapSet(@, playerId, NewPlayer(playerId, playerName)),
                                     !.lastActivityAt = Epoch]))
joinRoom(rs, c, playerId, playerName) ==
  LET room == rs[c] IN
  IF Has(room.players, playerId)
    THEN PutRoom(rs, c, Alias([room EXCEPT
           !.players[IndexOf(room.players, playerId)].isConnected = TRUE,
           !.players[IndexOf(room.players, playerId)].name = playerName]))
    ELSE PutRoom(rs, c, [room EXCEPT !.players = Append(@, NewPlayer(playerId, playerName)),
                                     !.lastActivityAt = Epoch])

\* a leaveRoom that forgets the players.delete: what C19 rules out
leaveRoomKeepsPlayer(rs, c, playerId) == rs
leaveRoom(rs, c, playerId) ==
  IF c \notin DOMAIN rs THEN rs
  ELSE LET room == rs[c]
           left == Alias([room EXCEPT !.players = MapDelete(@, playerId),
                                      !.lastActivityAt = Epoch])
       IN IF Len(left.players) = 0 THEN deleteRoom(rs, c)
          ELSE IF playerId = room.hostId
            THEN PutRoom(rs, c, [left EXCEPT !.hostId = left.players[1].id,
                                             !.gameState.hostId = left.players[1].id])
            ELSE PutRoom(rs, c, left)

\* a merge that never overwrites the winners: what C28 rules out
updateGameStateKeepsWinners(rs, c, partial) ==
  PutRoom(rs, c, [rs[c] EXCEPT !.gameState =
     [f \in DOMAIN @ |-> IF f \in DOMAIN partial \ {"winners"} THEN partial[f] ELSE @[f]]])
\* { ...room.gameState, ...gameState }: the fields of the partial state win
updateGameState(rs, c, partial) ==
  PutRoom(rs, c, [rs[c] EXCEPT !.gameState =
     [f \in DOMAIN @ |-> IF f \in DOMAIN partial THEN partial[f] ELSE @[f]]])

markPlayerRevealedOk(rs, c, playerId) == c \in DOMAIN rs /\ Has(rs[c].players, playerId)

\* a reveal that flips the flag: what C15 rules out
markPlayerRevealedFlip(rs, c, playerId) ==
  PutRoom(rs, c, Alias([rs[c] EXCEPT
     !.players[IndexOf(rs[c].players, playerId)].hasRevealed = ~@]))
markPlayerRevealed(rs, c, playerId) ==
  PutRoom(rs, c, Alias([rs[c] EXCEPT
     !.players[IndexOf(rs[c].players, playerId)].hasRevealed = TRUE]))

\* a push without the filter: what C5 rules out
submitVoteNoFilter(rs, c, voterId, votedForId) ==
  PutRoom(rs, c, [rs[c] EXCEPT !.gameState.votes =
     Append(@, [voterId |-> voterId, votedForId |-> votedForId])])
submitVote(rs, c, voterId, votedForId) ==
  PutRoom(rs, c, [rs[c] EXCEPT !.gameState.votes =
     Append(SelectSeq(@, LAMBDA v : v.voterId # voterId),
            [voterId |-> voterId, votedForId |-> votedForId])])

\* ---- cleanupOldRooms: what the sweep at instant now does to one room, and to all
\* lastActivityAt is set by createRoom, so inactiveMinutes never falls back to ageMinutes
ageMinutes(room, now) == now - room.createdAt
inactiveMinutes(room, now) == now - room.lastActivityAt
Expired(room, now, maxAgeMinutes) ==
  ageMinutes(room, now) > maxAgeMinutes \/ inactiveMinutes(room, now) > 10
\* a pruning with the test inverted, removing the connected players: what C34 rules out
PrunedConnected(room, now) ==
  IF inactiveMinutes(room, now) > 5
    THEN SelectSeq(room.players, LAMBDA p : ~p.isConnected)
    ELSE room.players
\* the roster after the disconnected players are removed from an idle room
Pruned(room, now) ==
  IF inactiveMinutes(room, now) > 5
    THEN SelectSeq(room.players, LAMBDA p : p.isConnected)
    ELSE room.players
playersRemoved(room, now) == Len(Pruned(room, now)) < Len(room.players)
Cleaned(room, now, maxAgeMinutes) ==
  \/ Expired(room, now, maxAgeMinutes)
  \/ playersRemoved(room, now) /\ Len(Pruned(room, now)) = 0
\* counts one room too few: the deletion after the player cleanup is not counted
cleanupOldRoomsUndercount(rs, now, maxAgeMinutes) ==
  [rooms |-> [c \in {d \in DOMAIN rs : ~Cleaned(rs[d], now, maxAgeMinutes)} |->
                Alias([rs[c] EXCEPT !.players = Pruned(rs[c], now)])],
   cleaned |-> Cardinality({d \in DOMAIN rs : Expired(rs[d], now, maxAgeMinutes)})]
cleanupOldRooms(rs, now, maxAgeMinutes) ==
  [rooms |-> [c \in {d \in DOMAIN rs : ~Cleaned(rs[d], now, maxAgeMinutes)} |->
                Alias([rs[c] EXCEPT !.players = Pruned(rs[c], now)])],
   cleaned |-> Cardinality({d \in DOMAIN rs : Cleaned(rs[d], now, maxAgeMinutes)})]

\* ---- calculateVotingResults, step by step
ImpostorIds(gs) == {gs.players[i].id : i \in {j \in DOMAIN gs.players : gs.players[j].role = "impostor"}}
VoteCount(gs, id) == Cardinality({i \in DOMAIN gs.votes : gs.votes[i].votedForId = id})
CorrectVotes(gs) == SelectSeq(gs.votes, LAMBDA v : v.votedForId \in ImpostorIds(gs))
CorrectVoters(gs) == {gs.votes[i].voterId : i \in {j \in DOMAIN gs.votes : gs.votes[j].votedForId \in ImpostorIds(gs)}}
ImpostorsIdentified(gs) == \E id \in ImpostorIds(gs) : VoteCount(gs, id) > 0
\* Array.from(Set): insertion order, each id once
RECURSIVE Dedup(_)
Dedup(q) ==
  IF q = <<>> THEN <<>>
  ELSE LET r == Dedup(SubSeq(q, 1, Len(q) - 1)) IN
       IF \E i \in DOMAIN r : r[i] = q[Len(q)] THEN r ELSE Append(r, q[Len(q)])
\* a filter that lets every player through: what C29 rules out
ImpostorSeqUnfiltered(gs) == gs.players
ImpostorSeq(gs) == SelectSeq(gs.players, LAMBDA p : p.role = "impostor")
\* every voter wins once an impostor is identified: what C6 rules out
WinnersAllVoters(gs) ==
  IF ImpostorsIdentified(gs)
    THEN Dedup([i \in DOMAIN gs.votes |-> gs.votes[i].voterId])
    ELSE Dedup([i \in DOMAIN ImpostorSeq(gs) |-> ImpostorSeq(gs)[i].id])
Winners(gs) ==
  IF ImpostorsIdentified(gs)
    THEN Dedup([i \in DOMAIN CorrectVotes(gs) |-> CorrectVotes(gs)[i].voterId])
    ELSE Dedup([i \in DOMAIN ImpostorSeq(gs) |-> ImpostorSeq(gs)[i].id])
InSeq(q, x) == \E i \in DOMAIN q : q[i] = x

calculateVotingResults(rs, c) ==
  LET room == rs[c]
      gs == room.gameState
      winners == Winners(gs)
      players == [i \in DOMAIN room.players |->
                    IF InSeq(winners, room.players[i].id)
                      THEN [room.players[i] EXCEPT !.wins = @ + 1]
                      ELSE room.players[i]]
      array == [i \in DOMAIN players |-> Entry(players[i], TRUE)]
      votingResults == [i \in DOMAIN array |->
                          [playerId |-> array[i].id, playerName |-> array[i].name,
                           voteCount |-> VoteCount(gs, array[i].id),
                           isImpostor |-> array[i].id \in ImpostorIds(gs),
                           correctVote |-> array[i].id \in CorrectVoters(gs)]]
  IN PutRoom(rs, c, [room EXCEPT !.players = players,
                                 !.gameState.players = array,
                                 !.gameState.votingResults = Some(votingResults),
                                 !.gameState.winners = Some(winners)])

Init ==
  /\ rooms = [c \in {} |-> 0]
  /\ socks = [s \in Sockets |-> [open |-> TRUE, fresh |-> TRUE, roomCode |-> NoCode, playerId |-> NoId, joined |-> {}]]
  /\ reply = TRUE
  /\ emits = <<>>
  /\ steps = 0

\* create-room, the generator drawing from codes
CreateRoomIn(s, name, codes) ==
  /\ Active(s)
  /\ \E c \in generateRoomCode(rooms, codes) :
       /\ rooms' = PutRoom(rooms, c, createRoom(c, s, name))
       /\ socks' = Bind(s, c)
       /\ Ack(TRUE, <<>>)
CreateRoom(s, name) == CreateRoomIn(s, name, Codes)

JoinRoom(s, c, name) ==
  /\ Active(s)
  /\ IF ~joinRoomOk(rooms, c) THEN Fail
     ELSE /\ rooms' = joinRoom(rooms, c, s, name)
          /\ socks' = Bind(s, c)
          /\ Ack(TRUE, <<Emit("player-joined", c, s)>>)

\* { ...oldPlayer, id: socket.id, isConnected: true }
updatedPlayerOf(oldPlayer, s) == [oldPlayer EXCEPT !.id = s, !.isConnected = TRUE]

RejoinRoom(s, c, oldPlayerId) ==
  /\ Active(s)
  /\ IF c \notin DOMAIN rooms THEN Fail
     ELSE IF ~Has(rooms[c].players, oldPlayerId) THEN Fail
     ELSE LET room == rooms[c]
              oldPlayer == Get(room.players, oldPlayerId)
              updatedPlayer == updatedPlayerOf(oldPlayer, s)
              players == MapSet(MapDelete(room.players, oldPlayerId), s, updatedPlayer)
              \* both the object formerly under oldPlayerId and the one formerly
              \* under socket.id are out of the Map; array elements are copied on re-key
              array == IF room.gameState.gameStarted
                         THEN [i \in DOMAIN room.gameState.players |->
                                 LET p == room.gameState.players[i] IN
                                 IF p.id = oldPlayerId
                                   THEN [updatedPlayerOf(p, s) EXCEPT !.shared = FALSE]
                                   ELSE IF p.id = s THEN [p EXCEPT !.shared = FALSE] ELSE p]
                         ELSE [i \in DOMAIN room.gameState.players |->
                                 LET p == room.gameState.players[i] IN
                                 IF p.id \in {oldPlayerId, s} THEN [p EXCEPT !.shared = FALSE] ELSE p]
              wasHost == room.hostId = oldPlayerId
              room2 == [room EXCEPT !.players = players,
                                    !.gameState.players = array,
                                    !.hostId = IF wasHost THEN s ELSE @,
                                    !.gameState.hostId = IF wasHost THEN s ELSE @]
          IN /\ rooms' = PutRoom(rooms, c, room2)
             /\ socks' = Bind(s, c)
             /\ Ack(TRUE, <<Emit("player-rejoined", c, ToAll)>>)

\* a closing that leaves the sessions as they are: what C24 and C25 rule out
EvictNobody(c) == socks
\* every socket in the socket.io room leaves it and loses its binding
Evict(c) ==
  [t \in Sockets |->
     IF t \in InRoom(c)
       THEN [socks[t] EXCEPT !.joined = @ \ {c}, !.roomCode = NoCode, !.playerId = NoId]
       ELSE socks[t]]
Unbind(sk, s) == [sk EXCEPT ![s].roomCode = NoCode, ![s].playerId = NoId]

LeaveRoom(s) ==
  /\ Active(s)
  /\ LET roomCode == socks[s].roomCode
         playerId == socks[s].playerId
     IN IF roomCode = NoCode \/ playerId = NoId THEN Fail
        ELSE IF roomCode \notin DOMAIN rooms THEN Fail
        ELSE IF rooms[roomCode].hostId = playerId
          THEN /\ rooms' = deleteRoom(rooms, roomCode)
               /\ socks' = Unbind(Evict(roomCode), s)
               /\ Ack(TRUE, <<EmitMsg("room-closed", roomCode, ToAll, "Host left the room")>>)
          ELSE /\ rooms' = leaveRoom(rooms, roomCode, playerId)
               /\ socks' = Unbind([socks EXCEPT ![s].joined = @ \ {roomCode}], s)
               /\ Ack(TRUE, IF roomCode \in DOMAIN rooms'
                              THEN <<Emit("player-left", roomCode, ToAll)>>
                              ELSE <<>>)

\* a closing announced with socket.to, which skips the host: what C25 rules out
CloseRoomUnannouncedToHost(s) ==
  /\ Active(s)
  /\ LET roomCode == socks[s].roomCode
         playerId == socks[s].playerId
     IN IF roomCode = NoCode \/ playerId = NoId THEN Fail
        ELSE IF roomCode \notin DOMAIN rooms THEN Fail
        ELSE IF rooms[roomCode].hostId # playerId THEN Fail
        ELSE /\ rooms' = deleteRoom(rooms, roomCode)
             /\ socks' = Evict(roomCode)
             /\ Ack(TRUE, <<EmitMsg("room-closed", roomCode, s, "Host closed the room")>>)
CloseRoom(s) ==
  /\ Active(s)
  /\ LET roomCode == socks[s].roomCode
         playerId == socks[s].playerId
     IN IF roomCode = NoCode \/ playerId = NoId THEN Fail
        ELSE IF roomCode \notin DOMAIN rooms THEN Fail
        ELSE IF rooms[roomCode].hostId # playerId THEN Fail
        ELSE /\ rooms' = deleteRoom(rooms, roomCode)
             /\ socks' = Evict(roomCode)
             /\ Ack(TRUE, <<EmitMsg("room-closed", roomCode, ToAll, "Host closed the room")>>)

\* a check that stops at the room lookup: what C11 rules out
HostOfAnyMember(s) ==
  /\ socks[s].roomCode # NoCode
  /\ socks[s].roomCode \in DOMAIN rooms
\* the caller passed the checks shared by the host-only handlers
HostOf(s) ==
  /\ socks[s].roomCode # NoCode
  /\ socks[s].roomCode \in DOMAIN rooms
  /\ rooms[socks[s].roomCode].hostId = s

\* { ...gameState, gameStarted: true, ... }: the fields the payload carries,
\* then the fields the handler sets, which win
Spread(gameState) ==
  [f \in {"impostorCount", "difficulty"} \cup (IF gameState.hostId # NoId THEN {"hostId"} ELSE {})
     |-> gameState[f]]
Merge(a, b) == [f \in DOMAIN a \cup DOMAIN b |-> IF f \in DOMAIN b THEN b[f] ELSE a[f]]

\* start-game: roles are written on the roster objects themselves
StartGame(s, cfg) ==
  /\ Active(s)
  /\ IF ~HostOf(s) THEN Fail
     ELSE LET roomCode == socks[s].roomCode
              room == rooms[roomCode]
              n == Len(room.players)
              impostorCount == Min(OrOne(cfg.impostorCount), n - 1)
          IN \E shuffledIndexes \in Perms(n) :
               LET chosen == {shuffledIndexes[i] : i \in 1..impostorCount}
                   currentPlayers == [i \in 1..n |->
                      [room.players[i] EXCEPT
                         !.role = IF i \in chosen THEN "impostor" ELSE @,
                         !.hasRevealed = FALSE]]
                   room2 == [room EXCEPT !.players = currentPlayers]
               IN /\ rooms' = updateGameState(PutRoom(rooms, roomCode, room2), roomCode,
                       Merge(Spread(cfg),
                         [gameStarted |-> TRUE,
                          phase |-> "wordreveal",
                          players |-> [i \in 1..n |-> Entry(currentPlayers[i], TRUE)],
                          votes |-> <<>>,
                          votingResults |-> Undefined,
                          winners |-> Undefined]))
                  /\ UNCHANGED socks
                  /\ Ack(TRUE, <<Emit("game-started", roomCode, ToAll)>>)

PlayerRevealed(s) ==
  /\ Active(s)
  /\ LET roomCode == socks[s].roomCode
         playerId == socks[s].playerId
     IN IF roomCode = NoCode \/ playerId = NoId THEN Fail
        ELSE IF ~markPlayerRevealedOk(rooms, roomCode, playerId) THEN Fail
        ELSE /\ rooms' = markPlayerRevealed(rooms, roomCode, playerId)
             /\ UNCHANGED socks
             /\ Ack(TRUE, <<Emit("player-revealed-update", roomCode, ToAll)>>)

ChangePhase(s, phase) ==
  /\ Active(s)
  /\ IF ~HostOf(s) THEN Fail
     ELSE LET roomCode == socks[s].roomCode
              players == rooms[roomCode].players
          IN /\ IF phase = "discussion"
                  THEN \E startPlayerIndex \in DOMAIN players :
                         rooms' = updateGameState(rooms, roomCode,
                            [phase |-> phase, startingPlayerId |-> players[startPlayerIndex].id])
                  ELSE rooms' = updateGameState(rooms, roomCode, [phase |-> phase])
             /\ UNCHANGED socks
             /\ Ack(TRUE, <<Emit("phase-changed", roomCode, ToAll)>>)

\* a handler without the phase check: what C12 rules out
SubmitVoteAnyPhase(s, votedForId) ==
  /\ Active(s)
  /\ LET roomCode == socks[s].roomCode
         playerId == socks[s].playerId
     IN IF roomCode = NoCode \/ playerId = NoId THEN Fail
        ELSE IF roomCode \notin DOMAIN rooms THEN Fail
        ELSE /\ rooms' = submitVote(rooms, roomCode, playerId, votedForId)
             /\ UNCHANGED socks
             /\ Ack(TRUE, <<Emit("vote-submitted", roomCode, ToAll)>>)
SubmitVote(s, votedForId) ==
  /\ Active(s)
  /\ LET roomCode == socks[s].roomCode
         playerId == socks[s].playerId
     IN IF roomCode = NoCode \/ playerId = NoId THEN Fail
        ELSE IF roomCode \notin DOMAIN rooms THEN Fail
        ELSE IF rooms[roomCode].gameState.phase # "voting" THEN Fail
        ELSE /\ rooms' = submitVote(rooms, roomCode, playerId, votedForId)
             /\ UNCHANGED socks
             /\ Ack(TRUE, <<Emit("vote-submitted", roomCode, ToAll)>>)

\* the two broadcasts in the other order: what C17 rules out
CalculateVotesPhaseFirst(s) ==
  /\ Active(s)
  /\ IF ~HostOf(s) THEN Fail
     ELSE LET roomCode == socks[s].roomCode IN
          /\ rooms' = updateGameState(calculateVotingResults(rooms, roomCode), roomCode,
                                      [phase |-> "results"])
          /\ UNCHANGED socks
          /\ Ack(TRUE, <<Emit("phase-changed", roomCode, ToAll),
                         Emit("voting-results", roomCode, ToAll)>>)
CalculateVotes(s) ==
  /\ Active(s)
  /\ IF ~HostOf(s) THEN Fail
     ELSE LET roomCode == socks[s].roomCode IN
          /\ rooms' = updateGameState(calculateVotingResults(rooms, roomCode), roomCode,
                                      [phase |-> "results"])
          /\ UNCHANGED socks
          /\ Ack(TRUE, <<Emit("voting-results", roomCode, ToAll),
                         Emit("phase-changed", roomCode, ToAll)>>)

\* impostor-revealed carries the impostors of the round's player array, here their ids
EmitImpostors(c, impostors) ==
  [event |-> "impostor-revealed", room |-> c, except |-> ToAll, message |-> "",
   impostors |-> [i \in DOMAIN impostors |-> impostors[i].id]]
RevealImpostor(s) ==
  /\ Active(s)
  /\ IF ~HostOf(s) THEN Fail
     ELSE LET roomCode == socks[s].roomCode IN
          /\ rooms' = updateGameState(rooms, roomCode, [phase |-> "results"])
          /\ UNCHANGED socks
          /\ Ack(TRUE, <<EmitImpostors(roomCode, ImpostorSeq(rooms[roomCode].gameState)),
                         Emit("phase-changed", roomCode, ToAll)>>)

\* { ...p, role: "player", hasRevealed: false }: wins are kept
\* a reset that carries the role over: what C9 rules out
resetPlayerKeepRole(p) == [p EXCEPT !.hasRevealed = FALSE]
resetPlayer(p) == [p EXCEPT !.role = "player", !.hasRevealed = FALSE]

\* a restart that writes on the roster objects and fails half way: what C18 rules out
RestartGameInPlace(s, config) ==
  /\ Active(s)
  /\ IF ~HostOf(s) THEN Fail
     ELSE LET roomCode == socks[s].roomCode
              room == rooms[roomCode]
              n == Len(room.players)
          IN /\ OrOne(config.impostorCount) > n
             /\ rooms' = PutRoom(rooms, roomCode,
                            Alias([room EXCEPT !.players =
                                     [i \in 1..n |-> [room.players[i] EXCEPT !.role = "impostor"]]]))
             /\ reply' = FALSE
             /\ emits' = <<>>
             /\ UNCHANGED <<socks, steps>>
\* restart-game: roles are drawn on copies of the roster objects; indexing past
\* the end of the copies throws and the catch block answers with a failure
RestartGame(s, config) ==
  /\ Active(s)
  /\ IF ~HostOf(s) THEN Fail
     ELSE LET roomCode == socks[s].roomCode
              room == rooms[roomCode]
              n == Len(room.players)
              impostorCount == OrOne(config.impostorCount)
          IN IF impostorCount > n THEN Fail
             ELSE \E shuffledIndexes \in Perms(n) :
               LET chosen == {shuffledIndexes[i] : i \in 1..impostorCount}
                   players == [i \in 1..n |->
                      [resetPlayer(room.players[i]) EXCEPT
                         !.role = IF i \in chosen THEN "impostor" ELSE @]]
                   \* the Map objects receive role and hasRevealed only
                   mapPlayers == [i \in 1..n |->
                      [room.players[i] EXCEPT !.role = players[i].role, !.hasRevealed = FALSE]]
                   room2 == Alias([room EXCEPT !.players = mapPlayers])
               IN /\ rooms' = updateGameState(PutRoom(rooms, roomCode, room2), roomCode,
                       [gameStarted |-> TRUE,
                        phase |-> "wordreveal",
                        players |-> [i \in 1..n |-> Entry(players[i], FALSE)],
                        difficulty |-> config.difficulty,
                        impostorCount |-> impostorCount,
                        votes |-> <<>>,
                        votingResults |-> Undefined,
                        winners |-> Undefined])
                  /\ UNCHANGED socks
                  /\ Ack(TRUE, <<Emit("game-started", roomCode, ToAll)>>)

\* send-notification has no acknowledgement
SendNotification(s) ==
  /\ Active(s)
  /\ socks[s].roomCode # NoCode
  /\ emits' = <<Emit("notification", socks[s].roomCode, ToAll)>>
  /\ Count
  /\ UNCHANGED <<rooms, socks, reply>>

\* transport-level disconnect; the socket object is gone afterwards
Closed == [open |-> FALSE, fresh |-> FALSE, roomCode |-> NoCode, playerId |-> NoId, joined |-> {}]

\* a disconnect that removes the player at once: what C14 rules out
DisconnectAndLeave(s) ==
  /\ Active(s)
  /\ ~socks[s].fresh
  /\ socks' = [socks EXCEPT ![s] = Closed]
  /\ Count
  /\ UNCHANGED reply
  /\ LET roomCode == socks[s].roomCode
         playerId == socks[s].playerId
     IN IF roomCode # NoCode /\ playerId # NoId /\ roomCode \in DOMAIN rooms
          THEN IF rooms[roomCode].hostId = playerId
                 THEN /\ rooms' = deleteRoom(rooms, roomCode)
                      /\ emits' = <<EmitMsg("room-closed", roomCode, s, "Host disconnected")>>
                 ELSE /\ rooms' = leaveRoom(rooms, roomCode, playerId)
                      /\ emits' = <<Emit("player-disconnected", roomCode, s)>>
          ELSE UNCHANGED rooms /\ emits' = <<>>
Disconnect(s) ==
  /\ Active(s)
  /\ ~socks[s].fresh
  /\ socks' = [socks EXCEPT ![s] = Closed]
  /\ Count
  /\ UNCHANGED reply
  /\ LET roomCode == socks[s].roomCode
         playerId == socks[s].playerId
     IN IF roomCode # NoCode /\ playerId # NoId /\ roomCode \in DOMAIN rooms
          THEN IF rooms[roomCode].hostId = playerId
                 THEN /\ rooms' = deleteRoom(rooms, roomCode)
                      /\ emits' = <<EmitMsg("room-closed", roomCode, s, "Host disconnected")>>
                 ELSE IF Has(rooms[roomCode].players, playerId)
                   THEN /\ rooms' = PutRoom(rooms, roomCode, Alias([rooms[roomCode] EXCEPT
                             !.players[IndexOf(rooms[roomCode].players, playerId)].isConnected = FALSE]))
                        /\ emits' = <<Emit("player-disconnected", roomCode, s)>>
                   ELSE UNCHANGED rooms /\ emits' = <<>>
          ELSE UNCHANGED rooms /\ emits' = <<>>

\* the payloads clients send; a request that is refused does not read its payload
\* hostId = NoId stands for a payload without the optional hostId field
Configs == [impostorCount : 0..MaxImpostorReq, hostId : {NoId} \cup Sockets, difficulty : Difficulties]
NoConfig == [impostorCount |-> 0, hostId |-> NoId, difficulty |-> "hard"]
CanVote(s) ==
  /\ socks[s].roomCode \in DOMAIN rooms
  /\ rooms[socks[s].roomCode].gameState.phase = "voting"

StartGameRequest(s) ==
  IF HostOf(s) THEN \E cfg \in Configs : StartGame(s, cfg) ELSE StartGame(s, NoConfig)
ChangePhaseRequest(s) ==
  IF HostOf(s) THEN \E ph \in Phases : ChangePhase(s, ph) ELSE ChangePhase(s, "setup")
SubmitVoteRequest(s) ==
  IF CanVote(s) THEN \E t \in Sockets : SubmitVote(s, t) ELSE SubmitVote(s, s)
RestartGameRequest(s) ==
  IF HostOf(s)
    THEN \E cfg \in Configs : cfg.hostId = NoId /\ RestartGame(s, cfg)
    ELSE RestartGame(s, NoConfig)

Next ==
  \/ \E s \in Sockets : CreateRoom(s, NameOf(s))
  \/ \E s \in Sockets, c \in Codes : JoinRoom(s, c, NameOf(s))
  \/ \E s \in Sockets, c \in Codes, old \in Sockets : RejoinRoom(s, c, old)
  \/ \E s \in Sockets : LeaveRoom(s)
  \/ \E s \in Sockets : CloseRoom(s)
  \/ \E s \in Sockets : StartGameRequest(s)
  \/ \E s \in Sockets : PlayerRevealed(s)
  \/ \E s \in Sockets : ChangePhaseRequest(s)
  \/ \E s \in Sockets : SubmitVoteRequest(s)
  \/ \E s \in Sockets : CalculateVotes(s)
  \/ \E s \in Sockets : RevealImpostor(s)
  \/ \E s \in Sockets : RestartGameRequest(s)
  \/ \E s \in Sockets : SendNotification(s)
  \/ \E s \in Sockets : Disconnect(s)

Spec == Init /\ [][Next]_vars

\* ---------------------------------------------------------------- the tally alone
\* Rooms in the voting phase of a started round: players 1..MaxTallyPlayers with
\* at least one impostor and one ordinary player, the players beyond the socket
\* ids marked disconnected, and any ballot of the connected players.
TallyIds == 1..MaxTallyPlayers
RECURSIVE BallotVotes(_, _)
BallotVotes(ballot, n) ==
  IF n = 0 THEN <<>>
  ELSE IF ballot[n] = NoId THEN BallotVotes(ballot, n - 1)
  ELSE Append(BallotVotes(ballot, n - 1), [voterId |-> n, votedForId |-> ballot[n]])
TallyRoom(roles, ballot) ==
  LET players == [i \in TallyIds |->
                    [NewPlayer(i, NameOf(i)) EXCEPT !.role = roles[i],
                                                   !.isConnected = i \in Sockets,
                                                   !.hasRevealed = TRUE]]
      room == createRoom("R1", 1, NameOf(1))
  IN [room EXCEPT !.players = players,
                  !.gameState = [@ EXCEPT !.phase = "voting",
                                          !.gameStarted = TRUE,
                                          !.players = [i \in TallyIds |-> Entry(players[i], TRUE)],
                                          !.impostorCount = Cardinality(Impostors(players)),
                                          !.startingPlayerId = 1,
                                          !.votes = BallotVotes(ballot, MaxSockets)]]
TallyInit ==
  /\ \E roles \in [TallyIds -> {"player", "impostor"}] :
     \E ballot \in [Sockets -> TallyIds \cup {NoId}] :
       /\ \E i, j \in TallyIds : roles[i] = "impostor" /\ roles[j] = "player"
       /\ rooms = [c \in {"R1"} |-> TallyRoom(roles, ballot)]
  /\ socks = [s \in Sockets |->
              [open |-> TRUE, fresh |-> FALSE, roomCode |-> "R1", playerId |-> s, joined |-> {"R1"}]]
  /\ reply = TRUE
  /\ emits = <<>>
  /\ steps = MaxSteps - 1
TallyNext == \E s \in Sockets : CalculateVotes(s)
TallySpec == TallyInit /\ [][TallyNext]_vars

\* ---------------------------------------------------------------- the ballot alone
\* A room in the voting phase of a started round with one impostor and no vote
\* cast yet; the connected players vote and vote again. steps counts the votes.
VoteInit ==
  /\ \E impostor \in TallyIds :
       rooms = [c \in {"R1"} |->
                  TallyRoom([i \in TallyIds |-> IF i = impostor THEN "impostor" ELSE "player"],
                            [s \in Sockets |-> NoId])]
  /\ socks = [s \in Sockets |->
              [open |-> TRUE, fresh |-> FALSE, roomCode |-> "R1", playerId |-> s, joined |-> {"R1"}]]
  /\ reply = TRUE
  /\ emits = <<>>
  /\ steps = 0
VoteNext == \E s \in Sockets : SubmitVoteRequest(s)
VoteSpec == VoteInit /\ [][VoteNext]_vars

\* ---------------------------------------------------------------- the registry alone
\* Sessions create, join and leave rooms of an empty registry whose generator
\* draws from more codes than rooms can be created in the run.
RegistrySteps == MaxSockets + 1
RegistryCodes == {"R" \o ToString(i) : i \in 1..(RegistrySteps + 1)}
RegistryInit ==
  /\ rooms = [c \in {} |-> 0]
  /\ socks = [s \in Sockets |-> [open |-> TRUE, fresh |-> TRUE, roomCode |-> NoCode, playerId |-> NoId, joined |-> {}]]
  /\ reply = TRUE
  /\ emits = <<>>
  /\ steps = MaxSteps - RegistrySteps
RegistryNext ==
  \/ \E s \in Sockets : CreateRoomIn(s, NameOf(s), RegistryCodes)
  \/ \E s \in Sockets, c \in RegistryCodes : JoinRoom(s, c, NameOf(s))
  \/ \E s \in Sockets : LeaveRoom(s)
RegistrySpec == RegistryInit /\ [][RegistryNext]_vars

\* ---------------------------------------------------------------- joinRoom alone
\* RoomManager.joinRoom called with any player id and name on a room in setup
\* with one to MaxJoinPlayers players, each under either name, connected or not,
\* revealed or not.
JoinNames == {"ann", "bob"}
JoinIds == 1..(MaxJoinPlayers + 1)
JoinRosters ==
  [n : 1..MaxJoinPlayers, name : [1..MaxJoinPlayers -> JoinNames],
   isConnected : [1..MaxJoinPlayers -> BOOLEAN], hasRevealed : [1..MaxJoinPlayers -> BOOLEAN]]
JoinRoster(r) ==
  [i \in 1..r.n |-> [NewPlayer(i, r.name[i]) EXCEPT !.isConnected = r.isConnected[i],
                                                   !.hasRevealed = r.hasRevealed[i]]]
JoinInit ==
  /\ \E r \in JoinRosters :
       /\ \A i \in (r.n + 1)..MaxJoinPlayers :
            r.name[i] = "ann" /\ r.isConnected[i] /\ r.hasRevealed[i]
       /\ rooms = [c \in {"R1"} |->
                    [createRoom("R1", 1, r.name[1]) EXCEPT !.players = JoinRoster(r)]]
  /\ socks = [s \in Sockets |->
              [open |-> TRUE, fresh |-> TRUE, roomCode |-> NoCode, playerId |-> NoId, joined |-> {}]]
  /\ reply = TRUE
  /\ emits = <<>>
  /\ steps = MaxSteps - 2
JoinRoomCall(playerId, playerName) ==
  /\ steps < MaxSteps
  /\ joinRoomOk(rooms, "R1")
  /\ rooms' = joinRoom(rooms, "R1", playerId, playerName)
  /\ reply' = TRUE
  /\ Count
  /\ UNCHANGED <<socks, emits>>
JoinNext == \E playerId \in JoinIds, playerName \in JoinNames : JoinRoomCall(playerId, playerName)
JoinSpec == JoinInit /\ [][JoinNext]_vars

\* ---------------------------------------------------------------- the sweep alone
\* Registries of one or two rooms, each created and last active at some instant,
\* with one to MaxSweepPlayers players of whom any may be disconnected; the
\* interval timer fires once, at an instant not before any of these.
SweepCodes == {"R1", "R2"}
Instants == {0, 1, 50, 51, 55, 56, 61}
SweepRosters ==
  [n : 1..MaxSweepPlayers, isConnected : [1..MaxSweepPlayers -> BOOLEAN],
   createdAt : Instants, lastActivityAt : Instants]
SweepRoom(c, r) ==
  LET room == createRoom(c, 1, NameOf(1)) IN
  [room EXCEPT !.createdAt = r.createdAt,
               !.lastActivityAt = r.lastActivityAt,
               !.players = [i \in 1..r.n |->
                              [NewPlayer(i, NameOf(i)) EXCEPT !.isConnected = r.isConnected[i]]]]
SweepInit ==
  /\ \E present \in SUBSET SweepCodes \ {{}} :
     \E r \in [present -> SweepRosters] :
       /\ \A c \in present :
            /\ r[c].createdAt <= r[c].lastActivityAt
            /\ \A i \in (r[c].n + 1)..MaxSweepPlayers : r[c].isConnected[i]
       /\ rooms = [c \in present |-> SweepRoom(c, r[c])]
  /\ socks = [s \in Sockets |->
              [open |-> TRUE, fresh |-> TRUE, roomCode |-> NoCode, playerId |-> NoId, joined |-> {}]]
  /\ reply = TRUE
  /\ emits = <<>>
  /\ steps = MaxSteps - 1
\* setInterval(() => roomManager.cleanupOldRooms(60), 30 minutes)
Sweep(now) ==
  /\ steps < MaxSteps
  /\ \A c \in DOMAIN rooms : rooms[c].lastActivityAt <= now
  /\ rooms' = cleanupOldRooms(rooms, now, MaxAgeMinutes).rooms
  /\ Count
  /\ UNCHANGED <<socks, reply, emits>>
SweepNext == \E now \in Instants : Sweep(now)
SweepSpec == SweepInit /\ [][SweepNext]_vars

\* ---------------------------------------------------------------- requests, time and the sweep
\* The requests of Spec, with time passing between them and the interval sweep
\* firing at any moment. The present instant is always Epoch: time passing by
\* TickMinutes moves every stored timestamp that far into the past.
TickMinutes == 6
Tick ==
  /\ steps < MaxSteps
  /\ rooms # <<>>
  /\ rooms' = [c \in DOMAIN rooms |->
                 [rooms[c] EXCEPT !.createdAt = @ - TickMinutes,
                                  !.lastActivityAt = @ - TickMinutes]]
  /\ Count
  /\ UNCHANGED <<socks, reply, emits>>
LifeNext ==
  \/ Next
  \/ Tick
  \/ Sweep(Epoch)
LifeSpec == Init /\ [][LifeNext]_vars

\* ---------------------------------------------------------------- the word reveal alone
\* A room in the word reveal of a started round with one impostor, nobody
\* having revealed yet; the connected players send player-revealed, again and
\* again. steps counts the requests.
RevealRoom(impostor) ==
  LET room == TallyRoom([i \in TallyIds |-> IF i = impostor THEN "impostor" ELSE "player"],
                        [s \in Sockets |-> NoId])
      players == [i \in TallyIds |-> [room.players[i] EXCEPT !.hasRevealed = FALSE]]
  IN [room EXCEPT !.players = players,
                  !.gameState.phase = "wordreveal",
                  !.gameState.startingPlayerId = NoId,
                  !.gameState.players = [i \in TallyIds |-> Entry(players[i], TRUE)]]
RevealInit ==
  /\ \E impostor \in TallyIds : rooms = [c \in {"R1"} |-> RevealRoom(impostor)]
  /\ socks = [s \in Sockets |->
              [open |-> TRUE, fresh |-> FALSE, roomCode |-> "R1", playerId |-> s, joined |-> {"R1"}]]
  /\ reply = TRUE
  /\ emits = <<>>
  /\ steps = 0
RevealNext == \E s \in Sockets : PlayerRevealed(s)
RevealSpec == RevealInit /\ [][RevealNext]_vars

\* ---------------------------------------------------------------- properties
GameStarted(c) == Emit("game-started", c, ToAll)
StartedIn(c) == reply /\ emits = <<GameStarted(c)>> /\ c \in DOMAIN rooms

\* C1: after every successful start-game or restart-game the stored
\* impostorCount is below the number of players, and a request asking for at
\* least as many impostors as there are players succeeds with players-1.
C1_ImpostorCountClamped ==
  [][\A s \in Sockets : \A cfg \in Configs :
       (HostOf(s) /\ (StartGame(s, cfg) \/ RestartGame(s, cfg)))
       => LET c == socks[s].roomCode
              n == Len(rooms[c].players)
          IN /\ reply'
             /\ rooms'[c].gameState.impostorCount < Len(rooms'[c].players)
             /\ cfg.impostorCount >= n => rooms'[c].gameState.impostorCount = n - 1]_vars

\* C2: after a successful start-game or restart-game whose stored impostorCount
\* is between 1 and players-1, exactly impostorCount roster players are
\* impostors and all the others are ordinary players.
C2_RolesPartition ==
  \A c \in Codes :
    (StartedIn(c) /\ rooms[c].gameState.impostorCount \in 1..(Len(rooms[c].players) - 1))
    => LET ps == rooms[c].players
       IN /\ Cardinality(Impostors(ps)) = rooms[c].gameState.impostorCount
          /\ Impostors(ps) \cup Ordinary(ps) = DOMAIN ps

\* C3: a room's phase only moves along setup -> wordreveal -> discussion ->
\* voting (optional) -> results, and leaves results only for wordreveal through
\* a restart (game-started is emitted).
PhaseOrder ==
  {<<"setup", "wordreveal">>, <<"wordreveal", "discussion">>, <<"discussion", "voting">>,
   <<"discussion", "results">>, <<"voting", "results">>, <<"results", "wordreveal">>}
C3_PhaseMonotonic ==
  [][\A c \in DOMAIN rooms \cap DOMAIN rooms' :
       LET from == rooms[c].gameState.phase
           to == rooms'[c].gameState.phase
       IN from # to =>
            /\ <<from, to>> \in PhaseOrder
            /\ from = "results" => emits' = <<GameStarted(c)>>]_vars

\* C4 (as claimed): when the host leaves a room in which other players remain,
\* the room stays with the remaining players and the first of them is host.
HostLeaves(s) ==
  /\ HostOf(s)
  /\ socks[s].playerId = s
  /\ Len(rooms[socks[s].roomCode].players) >= 2
  /\ LeaveRoom(s)
VotesNotBy(votes, x) == SelectSeq(votes, LAMBDA v : v.voterId # x)
C5_VoteReplaces ==
  [][\A s \in Sockets : \A t \in Sockets :
       (CanVote(s) /\ SubmitVote(s, t) /\ reply')
       => LET c == socks[s].roomCode
              x == socks[s].playerId
              before == rooms[c].gameState.votes
              after == rooms'[c].gameState.votes
          IN /\ Cardinality({i \in DOMAIN after : after[i].voterId = x}) = 1
             /\ \A i \in DOMAIN after : after[i].voterId = x => after[i].votedForId = t
             /\ VotesNotBy(after, x) = VotesNotBy(before, x)]_vars
\* three votes were cast and two are in the list: one voter voted again while
\* another voter's vote was in the list
C5_Witness ==
  /\ reply
  /\ emits = <<Emit("vote-submitted", "R1", ToAll)>>
  /\ steps = 3
  /\ Len(rooms["R1"].gameState.votes) = 2

\* C6: calculate-votes makes the winners the voters who voted for an impostor
\* when some vote names an impostor, and otherwise exactly the impostors.
SeqSet(q) == {q[i] : i \in DOMAIN q}
C6_WinRule ==
  [][\A s \in Sockets :
       (HostOf(s) /\ CalculateVotes(s))
       => LET c == socks[s].roomCode
              gs == rooms[c].gameState
              impostors == {gs.players[i].id : i \in Impostors(gs.players)}
              hits == {i \in DOMAIN gs.votes : gs.votes[i].votedForId \in impostors}
              winners == rooms'[c].gameState.winners[1]
          IN /\ rooms'[c].gameState.winners # Undefined
             /\ SeqSet(winners) = IF hits # {} THEN {gs.votes[i].voterId : i \in hits}
                                                ELSE impostors
             /\ Len(winners) = Cardinality(SeqSet(winners))]_vars
\* players A, B, C, D = 1, 2, 3, 4 with impostor C and the votes A -> C, B -> D
C6_Witness ==
  /\ "R1" \in DOMAIN rooms
  /\ Len(rooms["R1"].players) = 4
  /\ Impostors(rooms["R1"].players) = {3}
  /\ rooms["R1"].gameState.votes =
       <<[voterId |-> 1, votedForId |-> 3], [voterId |-> 2, votedForId |-> 4]>>
  /\ rooms["R1"].gameState.winners = Some(<<1>>)
  /\ Get(rooms["R1"].players, 1).wins = 1
  /\ Get(rooms["R1"].players, 2).wins = 0

\* C7: once the results of a round are computed, a further calculate-votes in
\* that round changes no player's wins.
C7_WinsOncePerRound ==
  [][\A c \in DOMAIN rooms \cap DOMAIN rooms' :
       (/\ rooms[c].gameState.votingResults # Undefined
        /\ emits' = <<Emit("voting-results", c, ToAll), Emit("phase-changed", c, ToAll)>>)
       => \A i \in DOMAIN rooms[c].players :
            rooms'[c].players[i].wins = rooms[c].players[i].wins]_vars

\* C8: a successful rejoin-room(code, oldId) by a session with another id, in
\* any phase, puts the old entry's name, role, hasRevealed and wins under the
\* new id with isConnected = TRUE, removes the oldId entry, moves hostId when
\* oldId was the host, and re-keys the gameState.players entry of oldId.
C8_RejoinRestores ==
  [][\A s \in Sockets : \A old \in Sockets \ {s} : \A c \in DOMAIN rooms :
       (/\ Has(rooms[c].players, old)
        /\ reply'
        /\ emits' = <<Emit("player-rejoined", c, ToAll)>>
        /\ RejoinRoom(s, c, old))
       => LET was == Get(rooms[c].players, old)
              ps == rooms'[c].players
              arr == rooms[c].gameState.players
              arr2 == rooms'[c].gameState.players
          IN /\ Has(ps, s)
             /\ Get(ps, s) = [was EXCEPT !.id = s, !.isConnected = TRUE]
             /\ ~Has(ps, old)
             /\ rooms[c].hostId = old => rooms'[c].hostId = s /\ rooms'[c].gameState.hostId = s
             /\ rooms[c].hostId # old => rooms'[c].hostId = rooms[c].hostId
             /\ Len(arr2) = Len(arr)
             /\ \A i \in DOMAIN arr :
                  /\ arr[i].id = old => arr2[i].id = s /\ arr2[i].role = arr[i].role
                  /\ arr2[i].id # old]_vars

\* C9: a successful restart-game keeps the roster, every player's wins and
\* isConnected, sets every hasRevealed to FALSE and draws the roles anew:
\* exactly the requested number of impostors, whatever the roles were.
C9_RestartFrame ==
  [][\A s \in Sockets : \A cfg \in Configs :
       (/\ HostOf(s)
        /\ reply'
        /\ emits' = <<GameStarted(socks[s].roomCode)>>
        /\ rooms'[socks[s].roomCode].gameState.impostorCount = OrOne(cfg.impostorCount)
        /\ ~rooms'[socks[s].roomCode].gameState.players[1].shared
        /\ RestartGame(s, cfg))
       => LET c == socks[s].roomCode
              ps == rooms[c].players
              ps2 == rooms'[c].players
          IN /\ Len(ps2) = Len(ps)
             /\ \A i \in DOMAIN ps :
                  /\ ps2[i].id = ps[i].id
                  /\ ps2[i].wins = ps[i].wins
                  /\ ps2[i].isConnected = ps[i].isConnected
                  /\ ps2[i].hasRevealed = FALSE
             /\ Cardinality(Impostors(ps2)) = OrOne(cfg.impostorCount)
             /\ Impostors(ps2) \cup Ordinary(ps2) = DOMAIN ps2]_vars
C9_Witness ==
  \E c \in DOMAIN rooms :
    /\ StartedIn(c)
    /\ rooms[c].gameState.players # <<>>
    /\ \A i \in DOMAIN rooms[c].gameState.players : ~rooms[c].gameState.players[i].shared
    /\ \E i \in DOMAIN rooms[c].players : rooms[c].players[i].wins > 0
    /\ Cardinality(Impostors(rooms[c].players)) = 1
    /\ Len(rooms[c].players) = 2

\* C10: join-room by a new player succeeds exactly when the room's phase is
\* setup, and a refused join-room leaves the rooms unchanged.
C10_JoinOnlyInSetup ==
  [][\A s \in Sockets : \A c \in DOMAIN rooms :
       (~Has(rooms[c].players, s) /\ JoinRoom(s, c, NameOf(s)))
       => /\ reply' <=> rooms[c].gameState.phase = "setup"
          /\ ~reply' => UNCHANGED rooms]_vars

\* C11: a start-game, change-phase, calculate-votes, reveal-impostor,
\* restart-game or close-room request of a session that is not the host of its
\* room at that moment, whatever its payload, is answered with a failure,
\* emits nothing and leaves rooms and bindings unchanged.
NotCurrentHost(s) ==
  \/ socks[s].roomCode \notin DOMAIN rooms
  \/ rooms[socks[s].roomCode].hostId # s
C11_HostCheckedAtCallTime ==
  [][\A s \in Sockets :
       (/\ NotCurrentHost(s)
        /\ \/ \E cfg \in Configs : StartGame(s, cfg) \/ RestartGame(s, cfg)
           \/ \E ph \in Phases : ChangePhase(s, ph)
           \/ CalculateVotes(s)
           \/ RevealImpostor(s)
           \/ CloseRoom(s))
       => ~reply' /\ emits' = <<>> /\ UNCHANGED <<rooms, socks>>]_vars
\* a request was refused while a former host, whose player entry and host role
\* moved to another session by rejoin-room, is still bound to the room
C11_Witness ==
  /\ ~reply
  /\ emits = <<>>
  /\ "R1" \in DOMAIN rooms
  /\ \E s \in Sockets :
       /\ socks[s].open /\ socks[s].roomCode = "R1" /\ socks[s].playerId = s
       /\ rooms["R1"].hostId # s
       /\ ~Has(rooms["R1"].players, s)
       /\ rooms["R1"].gameState.phase = "wordreveal"

\* C12: a submit-vote outside the voting phase fails and leaves the rooms as
\* they were; a room's votes list changes only by a submit-vote in the voting
\* phase or by the reset to empty of start-game / restart-game.
C12_VotesOnlyInVoting ==
  [][/\ \A s \in Sockets : \A t \in Sockets :
          (/\ socks[s].roomCode \in DOMAIN rooms
           /\ rooms[socks[s].roomCode].gameState.phase # "voting"
           /\ SubmitVote(s, t))
          => ~reply' /\ emits' = <<>> /\ UNCHANGED rooms
     /\ \A c \in DOMAIN rooms \cap DOMAIN rooms' :
          rooms'[c].gameState.votes # rooms[c].gameState.votes
          => \/ /\ rooms[c].gameState.phase = "voting"
                /\ reply'
                /\ emits' = <<Emit("vote-submitted", c, ToAll)>>
             \/ /\ rooms'[c].gameState.votes = <<>>
                /\ emits' = <<GameStarted(c)>>]_vars
\* a request was refused in a room that has left the voting phase with a vote cast
C12_Witness ==
  /\ ~reply
  /\ emits = <<>>
  /\ "R1" \in DOMAIN rooms
  /\ rooms["R1"].gameState.phase \in {"results", "discussion"}
  /\ rooms["R1"].gameState.votes # <<>>
  /\ \E s \in Sockets : socks[s].open /\ socks[s].roomCode = "R1"

\* C13: until the results of the round are computed, no message of a request
\* carries who voted for whom. game-started and phase-changed carry the room's
\* gameState as it is after the request, and so do the replies of join-room
\* and rejoin-room; gameState holds the votes list.
SentGameState(c) ==
  \/ \E i \in DOMAIN emits :
       emits[i].room = c /\ emits[i].event \in {"game-started", "phase-changed"}
  \/ reply /\ emits = <<Emit("player-rejoined", c, ToAll)>>
  \/ reply /\ \E s \in Sockets : emits = <<Emit("player-joined", c, s)>>
C13_VoteContentSecret ==
  \A c \in DOMAIN rooms :
    (SentGameState(c) /\ rooms[c].gameState.votingResults = Undefined)
    => rooms[c].gameState.votes = <<>>

\* C14 (as claimed): when the session of a player of a room, host or not,
\* disconnects, the room stays and the player stays in the roster with
\* isConnected = FALSE and everything else as before.
BoundPlayer(s) ==
  /\ socks[s].roomCode \in DOMAIN rooms
  /\ socks[s].playerId = s
  /\ Has(rooms[socks[s].roomCode].players, s)
RevealedIn(p, id) == IF p.id = id THEN [p EXCEPT !.hasRevealed = TRUE] ELSE p
C15_RevealIdempotent ==
  [][\A s \in Sockets :
       (BoundPlayer(s) /\ PlayerRevealed(s))
       => LET c == socks[s].roomCode
              arr == rooms[c].gameState.players
          IN /\ reply'
             /\ rooms'[c].players = [i \in DOMAIN rooms[c].players |-> RevealedIn(rooms[c].players[i], s)]
             /\ rooms'[c].gameState.players =
                  [i \in DOMAIN arr |-> IF arr[i].shared THEN RevealedIn(arr[i], s) ELSE arr[i]]
             /\ [rooms'[c] EXCEPT !.players = <<>>, !.gameState.players = <<>>]
                  = [rooms[c] EXCEPT !.players = <<>>, !.gameState.players = <<>>]
             /\ Get(rooms[c].players, s).hasRevealed => UNCHANGED rooms]_vars
\* more player-revealed requests were served than players have revealed: some
\* player has sent it twice
C15_Witness ==
  /\ reply
  /\ emits = <<Emit("player-revealed-update", "R1", ToAll)>>
  /\ steps > Cardinality({i \in DOMAIN rooms["R1"].players : rooms["R1"].players[i].hasRevealed})
  /\ \E i \in DOMAIN rooms["R1"].players : ~rooms["R1"].players[i].hasRevealed

\* C16: a sweep deletes exactly the rooms older than MaxAgeMinutes or idle for
\* more than 10 minutes and the rooms idle for more than 5 minutes whose
\* players are all disconnected; from the other rooms idle for more than 5
\* minutes it removes the disconnected players and nothing else; it leaves
\* every other room as it was; it returns the number of rooms deleted.
C16_SweepExact ==
  [][\A now \in Instants :
       Sweep(now) =>
         /\ \A c \in DOMAIN rooms :
              LET age == now - rooms[c].createdAt
                  idle == now - rooms[c].lastActivityAt
                  connected == SelectSeq(rooms[c].players, LAMBDA p : p.isConnected)
              IN IF age > MaxAgeMinutes \/ idle > 10 \/ (idle > 5 /\ connected = <<>>)
                   THEN c \notin DOMAIN rooms'
                   ELSE /\ c \in DOMAIN rooms'
                        /\ rooms'[c].players = IF idle > 5 THEN connected ELSE rooms[c].players
                        /\ [rooms'[c] EXCEPT !.players = <<>>] = [rooms[c] EXCEPT !.players = <<>>]
         /\ DOMAIN rooms' \subseteq DOMAIN rooms
         /\ cleanupOldRooms(rooms, now, MaxAgeMinutes).cleaned
              = Cardinality(DOMAIN rooms \ DOMAIN rooms')]_vars
\* after the sweep a room idle for 6 minutes is left without its disconnected
\* first player
C16_Witness ==
  /\ steps = MaxSteps
  /\ DOMAIN rooms = {"R1"}
  /\ rooms["R1"].lastActivityAt = 55
  /\ rooms["R1"].createdAt = 1
  /\ Len(rooms["R1"].players) = 1
  /\ rooms["R1"].players[1].id = 2

C18_FailureChangesNothing ==
  [][(/\ ~reply'
      /\ \A s \in Sockets : ~Disconnect(s) /\ ~SendNotification(s))
     => UNCHANGED <<rooms, socks>>]_vars
\* a request was refused while a round is running in a room with a vote cast
\* and a session is open outside the room
C18_Witness ==
  /\ ~reply
  /\ emits = <<>>
  /\ "R1" \in DOMAIN rooms
  /\ rooms["R1"].gameState.gameStarted
  /\ rooms["R1"].gameState.votes # <<>>
  /\ \E s \in Sockets : socks[s].open /\ socks[s].roomCode = NoCode

\* C19: a leave-room by the host of a room emits room-closed to the room and
\* deletes the room; a leave-room by a session of the room that is not the host
\* removes that player's roster entry and nothing else of the roster, keeps the
\* room, its host, phase and votes, and emits player-left to the room.
C19_LeaveRoomByRole ==
  [][\A s \in Sockets :
       (/\ socks[s].roomCode \in DOMAIN rooms
        /\ socks[s].playerId # NoId
        /\ LeaveRoom(s))
       => LET c == socks[s].roomCode
              playerId == socks[s].playerId
          IN /\ reply'
             /\ socks'[s].roomCode = NoCode
             /\ IF rooms[c].hostId = playerId
                  THEN /\ c \notin DOMAIN rooms'
                       /\ Len(emits') = 1
                       /\ emits'[1].event = "room-closed"
                       /\ emits'[1].room = c
                       /\ emits'[1].except = ToAll
                  ELSE /\ c \in DOMAIN rooms'
                       /\ rooms'[c].players = MapDelete(rooms[c].players, playerId)
                       /\ rooms'[c].hostId = rooms[c].hostId
                       /\ rooms'[c].gameState.phase = rooms[c].gameState.phase
                       /\ rooms'[c].gameState.votes = rooms[c].gameState.votes
                       /\ emits' = <<Emit("player-left", c, ToAll)>>
                       /\ \A t \in Sockets \ {s} : socks'[t] = socks[t]]_vars
\* a player who is not the host has left a running game: the host is alone in
\* the roster and the room is still there
C19_Witness ==
  /\ reply
  /\ emits = <<Emit("player-left", "R1", ToAll)>>
  /\ "R1" \in DOMAIN rooms
  /\ rooms["R1"].gameState.gameStarted
  /\ Len(rooms["R1"].players) = 1
  /\ rooms["R1"].players[1].id = rooms["R1"].hostId
  /\ Len(rooms["R1"].gameState.players) = 2

\* C20: a successful rejoin-room(code, oldId) from another session re-keys the
\* votes cast by oldId to the new id and leaves the other votes as they were,
\* so that the rejoined player has at most one vote in the list.
ReKeyed(votes, oldPlayerId, s) ==
  [i \in DOMAIN votes |->
     IF votes[i].voterId = oldPlayerId THEN [votes[i] EXCEPT !.voterId = s] ELSE votes[i]]
C20_RejoinReKeysVotes ==
  [][\A s \in Sockets : \A oldPlayerId \in Sockets \ {s} :
       (/\ reply'
        /\ "R1" \in DOMAIN rooms
        /\ Has(rooms["R1"].players, oldPlayerId)
        /\ RejoinRoom(s, "R1", oldPlayerId))
       => rooms'["R1"].gameState.votes = ReKeyed(rooms["R1"].gameState.votes, oldPlayerId, s)]_vars

\* C21: a successful rejoin-room(code, oldId) from another session, when oldId
\* is the round's startingPlayerId, sets startingPlayerId to the new id, so
\* that startingPlayerId names a player of the roster afterwards.
C21_RejoinReKeysStartingPlayer ==
  [][\A s \in Sockets : \A oldPlayerId \in Sockets \ {s} :
       (/\ reply'
        /\ "R1" \in DOMAIN rooms
        /\ Has(rooms["R1"].players, oldPlayerId)
        /\ rooms["R1"].gameState.startingPlayerId = oldPlayerId
        /\ RejoinRoom(s, "R1", oldPlayerId))
       => /\ rooms'["R1"].gameState.startingPlayerId = s
          /\ Has(rooms'["R1"].players, rooms'["R1"].gameState.startingPlayerId)]_vars

\* C22: in every room, every vote of the votes list has a voterId and a
\* votedForId that are ids of players in the room's roster.
C22_VotesNameRosterPlayers ==
  \A c \in DOMAIN rooms :
    \A i \in DOMAIN rooms[c].gameState.votes :
      /\ Has(rooms[c].players, rooms[c].gameState.votes[i].voterId)
      /\ Has(rooms[c].players, rooms[c].gameState.votes[i].votedForId)

\* C23: in every live room gameState.hostId equals the room's hostId.
C23_HostIdMirrored ==
  \A c \in DOMAIN rooms : rooms[c].gameState.hostId = rooms[c].hostId

\* C24: a session holds a room code and a player id together or neither; after
\* a successful leave-room the caller holds neither, and after a successful
\* leave-room or close-room by the host no session holds the code of that room.
C24_BindingCleared ==
  [][/\ \A s \in Sockets : (socks'[s].roomCode = NoCode) <=> (socks'[s].playerId = NoId)
     /\ \A s \in Sockets :
          (/\ reply'
           /\ socks[s].roomCode \in DOMAIN rooms
           /\ LeaveRoom(s) \/ CloseRoom(s))
          => LET c == socks[s].roomCode IN
             /\ socks'[s].roomCode = NoCode
             /\ socks'[s].playerId = NoId
             /\ rooms[c].hostId = socks[s].playerId
                  => \A t \in Sockets : socks'[t].roomCode # c]_vars
\* the host has closed a room in which another session was bound
C24_Witness ==
  /\ reply
  /\ emits = <<EmitMsg("room-closed", "R1", ToAll, "Host closed the room")>>
  /\ "R1" \notin DOMAIN rooms
  /\ Cardinality({s \in Sockets : socks[s].open /\ ~socks[s].fresh /\ socks[s].roomCode = NoCode}) >= 2

\* C25: a close-room by the host of a room succeeds, emits room-closed once to
\* every session of the room, the host included, takes every session out of
\* the socket.io room and deletes the room from the registry.
C25_CloseRoomByHost ==
  [][\A s \in Sockets :
       (/\ socks[s].roomCode \in DOMAIN rooms
        /\ socks[s].playerId # NoId
        /\ rooms[socks[s].roomCode].hostId = socks[s].playerId
        /\ CloseRoom(s))
       => LET c == socks[s].roomCode IN
          /\ reply'
          /\ emits' = <<EmitMsg("room-closed", c, ToAll, "Host closed the room")>>
          /\ s \in InRoom(c)
          /\ \A t \in Sockets : c \notin socks'[t].joined
          /\ c \notin DOMAIN rooms'
          /\ \A d \in DOMAIN rooms \ {c} : d \in DOMAIN rooms' /\ rooms'[d] = rooms[d]]_vars
\* the host has closed a room that every session had entered
C25_Witness ==
  /\ reply
  /\ emits = <<EmitMsg("room-closed", "R1", ToAll, "Host closed the room")>>
  /\ "R1" \notin DOMAIN rooms
  /\ \A s \in Sockets : socks[s].open /\ ~socks[s].fresh /\ socks[s].joined = {}

\* C26: a create-room succeeds and adds exactly one room, under a code no live
\* room has; the new room has the caller as its only player and as hostId,
\* with role player, connected, not revealed and no wins, phase setup, no game
\* started, impostorCount 1 and difficulty medium; every room that was live
\* is unchanged, and the generator can still find a free code.
C26_CreateRoomAddsOne ==
  [][\A s \in Sockets :
       CreateRoomIn(s, NameOf(s), RegistryCodes)
       => /\ reply'
          /\ generateRoomCode(rooms', RegistryCodes) # {}
          /\ \A d \in DOMAIN rooms : d \in DOMAIN rooms' /\ rooms'[d] = rooms[d]
          /\ \E c \in RegistryCodes \ DOMAIN rooms :
               /\ DOMAIN rooms' = DOMAIN rooms \cup {c}
               /\ rooms'[c].code = c
               /\ rooms'[c].hostId = s
               /\ rooms'[c].players = <<NewPlayer(s, NameOf(s))>>
               /\ rooms'[c].players[1].role = "player"
               /\ rooms'[c].players[1].wins = 0
               /\ rooms'[c].gameState.phase = "setup"
               /\ ~rooms'[c].gameState.gameStarted
               /\ rooms'[c].gameState.hostId = s
               /\ rooms'[c].gameState.impostorCount = 1
               /\ rooms'[c].gameState.difficulty = "medium"
               /\ rooms'[c].gameState.players = <<>>
               /\ rooms'[c].gameState.votes = <<>>
               /\ socks'[s].roomCode = c]_vars
\* a room was created while two rooms were live, one of them with two players
C26_Witness ==
  /\ reply
  /\ emits = <<>>
  /\ Cardinality(DOMAIN rooms) = 3
  /\ \E c \in DOMAIN rooms : Len(rooms[c].players) = 2

\* C27: joinRoom on a room whose game has not started, with a player id
\* already in the roster, keeps the roster's size and order, gives that entry
\* the new name and isConnected = TRUE, and keeps its role, hasRevealed and wins
\* and every other entry; with a player id not in the roster it appends one
\* entry with role player, connected, not revealed and no wins.
C27_JoinRoomNoDuplicate ==
  [][\A playerId \in JoinIds : \A playerName \in JoinNames :
       JoinRoomCall(playerId, playerName)
       => LET ps == rooms["R1"].players
              ps2 == rooms'["R1"].players
          IN IF Has(ps, playerId)
               THEN /\ Len(ps2) = Len(ps)
                    /\ \A i \in DOMAIN ps :
                         IF ps[i].id = playerId
                           THEN /\ ps2[i].id = playerId
                                /\ ps2[i].name = playerName
                                /\ ps2[i].isConnected
                                /\ ps2[i].role = ps[i].role
                                /\ ps2[i].hasRevealed = ps[i].hasRevealed
                                /\ ps2[i].wins = ps[i].wins
                           ELSE ps2[i] = ps[i]
               ELSE /\ Len(ps2) = Len(ps) + 1
                    /\ SubSeq(ps2, 1, Len(ps)) = ps
                    /\ ps2[Len(ps2)] = [id |-> playerId, name |-> playerName, role |-> "player",
                                         isConnected |-> TRUE, hasRevealed |-> FALSE, wins |-> 0]]_vars
\* two joins were served and the roster has one entry: both named the player
\* already there, who is connected, still revealed and called bob
C27_Witness ==
  /\ steps = MaxSteps
  /\ "R1" \in DOMAIN rooms
  /\ Len(rooms["R1"].players) = 1
  /\ rooms["R1"].players[1].name = "bob"
  /\ rooms["R1"].players[1].isConnected
  /\ rooms["R1"].players[1].hasRevealed
  /\ rooms["R1"].gameState.phase = "setup"

\* C28: right after a successful start-game or restart-game every player of
\* the roster and of the round's player array has hasRevealed = FALSE, the
\* votes list is empty, votingResults and winners are cleared, the game counts
\* as started and the phase is wordreveal.
C28_RoundReset ==
  \A c \in Codes :
    StartedIn(c) =>
      LET room == rooms[c] IN
      /\ \A i \in DOMAIN room.players : ~room.players[i].hasRevealed
      /\ Len(room.gameState.players) = Len(room.players)
      /\ \A i \in DOMAIN room.gameState.players : ~room.gameState.players[i].hasRevealed
      /\ room.gameState.votes = <<>>
      /\ room.gameState.votingResults = Undefined
      /\ room.gameState.winners = Undefined
      /\ room.gameState.gameStarted
      /\ room.gameState.phase = "wordreveal"
\* a start-game after a tally: a player has a win of the round before, and the
\* player array holds the roster objects
C28_Witness ==
  /\ StartedIn("R1")
  /\ Len(rooms["R1"].players) = 2
  /\ \E i \in DOMAIN rooms["R1"].players : rooms["R1"].players[i].wins > 0
  /\ \A i \in DOMAIN rooms["R1"].gameState.players : rooms["R1"].gameState.players[i].shared

\* C29: a reveal-impostor by the host succeeds, reports the players of the
\* round's player array whose role is impostor, each entry once and no one
\* else, sets the phase to results and changes nothing else of the room:
\* roster, wins, votes, votingResults and winners are as before.
C29_RevealImpostorFrame ==
  [][\A s \in Sockets :
       (HostOf(s) /\ RevealImpostor(s))
       => LET c == socks[s].roomCode
              gs == rooms[c].gameState
              reported == emits'[1].impostors
          IN /\ reply'
             /\ Len(emits') = 2
             /\ emits'[1].event = "impostor-revealed"
             /\ emits'[1].room = c
             /\ {reported[i] : i \in DOMAIN reported}
                  = {gs.players[i].id : i \in {j \in DOMAIN gs.players : gs.players[j].role = "impostor"}}
             /\ Len(reported) = Cardinality({j \in DOMAIN gs.players : gs.players[j].role = "impostor"})
             /\ rooms'[c].gameState.phase = "results"
             /\ rooms'[c] = [rooms[c] EXCEPT !.gameState.phase = "results"]
             /\ socks' = socks]_vars
\* the impostor was revealed after the tally of a round in a room of two: one
\* player is reported, and the winners and a win of the tally are still there
C29_Witness ==
  /\ reply
  /\ Len(emits) = 2
  /\ emits[1].event = "impostor-revealed"
  /\ Len(emits[1].impostors) = 1
  /\ Len(rooms["R1"].players) = 2
  /\ rooms["R1"].gameState.phase = "results"
  /\ rooms["R1"].gameState.winners # Undefined
  /\ \E i \in DOMAIN rooms["R1"].players : rooms["R1"].players[i].wins > 0

\* C30: in every room the number of votes in the votes list is at most the
\* number of players in the roster, the two numbers vote-submitted reports.
C30_VotesAtMostPlayers ==
  \A c \in DOMAIN rooms : Len(rooms[c].gameState.votes) <= Len(rooms[c].players)

\* C31: a rejoin-room succeeds only when the roster entry under oldPlayerId is
\* marked disconnected; a rejoin-room naming a connected player fails and
\* leaves the rooms and the bindings as they were.
C31_RejoinOnlyDisconnected ==
  [][\A s \in Sockets : \A oldPlayerId \in Sockets :
       (/\ "R1" \in DOMAIN rooms
        /\ Has(rooms["R1"].players, oldPlayerId)
        /\ Get(rooms["R1"].players, oldPlayerId).isConnected
        /\ RejoinRoom(s, "R1", oldPlayerId))
       => ~reply' /\ UNCHANGED <<rooms, socks>>]_vars

\* C32: a successful rejoin-room leaves the roster with as many players as
\* before and with no two entries of the round's player array under one id.
C32_RejoinKeepsRosterSize ==
  [][\A s \in Sockets : \A oldPlayerId \in Sockets :
       (/\ reply'
        /\ "R1" \in DOMAIN rooms
        /\ Has(rooms["R1"].players, oldPlayerId)
        /\ RejoinRoom(s, "R1", oldPlayerId))
       => LET array == rooms'["R1"].gameState.players IN
          /\ Len(rooms'["R1"].players) = Len(rooms["R1"].players)
          /\ \A i, j \in DOMAIN array : array[i].id = array[j].id => i = j]_vars

\* C33: every open session that holds a binding holds the code of a live room
\* and the id of a player in that room's roster.
C33_BindingsNameLivePlayers ==
  \A s \in Sockets :
    (socks[s].open /\ socks[s].roomCode # NoCode)
    => /\ socks[s].roomCode \in DOMAIN rooms
       /\ Has(rooms[socks[s].roomCode].players, socks[s].playerId)

\* C34: every live room has at least one player in its roster, and its hostId
\* is the id of a player of the roster.
C34_HostInRoster ==
  \A c \in DOMAIN rooms :
    /\ Len(rooms[c].players) >= 1
    /\ Has(rooms[c].players, rooms[c].hostId)
\* the sweep has pruned the disconnected second player of an idle room: five
\* steps were taken, the last event was the second player's disconnect, and
\* the host is alone in a roster that was last touched before the present instant
C34_Witness ==
  /\ steps = 5
  /\ emits = <<Emit("player-disconnected", "R1", 2)>>
  /\ "R1" \in DOMAIN rooms
  /\ ~socks[2].open
  /\ rooms["R1"].lastActivityAt < Epoch
  /\ Len(rooms["R1"].players) = 1
  /\ rooms["R1"].players[1].id = 1
  /\ rooms["R1"].players[1].name = NameOf(1)
  /\ rooms["R1"].hostId = 1

\* C35: right after a successful calculate-votes every id of the winners list
\* is the id of a roster player, and votingResults has one entry per roster
\* player, in roster order.
C35_WinnersInRoster ==
  \A c \in Codes :
    (reply /\ emits # <<>> /\ emits[1].event = "voting-results" /\ emits[1].room = c)
    => LET room == rooms[c]
           winners == room.gameState.winners[1]
           votingResults == room.gameState.votingResults[1]
       IN /\ \A i \in DOMAIN winners : Has(room.players, winners[i])
          /\ Len(votingResults) = Len(room.players)
          /\ \A i \in DOMAIN votingResults : votingResults[i].playerId = room.players[i].id

\* C36: every successful request of a session on its room (join, rejoin,
\* start-game, player-revealed, change-phase, submit-vote, calculate-votes,
\* reveal-impostor, restart-game, and a leave-room the room survives) leaves
\* the room's lastActivityAt at the present instant.
Request(s) ==
  \/ JoinRoom(s, "R1", NameOf(s))
  \/ \E oldPlayerId \in Sockets : RejoinRoom(s, "R1", oldPlayerId)
  \/ LeaveRoom(s)
  \/ PlayerRevealed(s)
  \/ ChangePhaseRequest(s)
  \/ SubmitVoteRequest(s)
  \/ CalculateVotes(s)
  \/ RevealImpostor(s)
  \/ StartGameRequest(s)
  \/ RestartGameRequest(s)
C36_RequestsRefreshActivity ==
  [][\A s \in Sockets :
       (/\ reply'
        /\ steps' = steps + 1
        /\ "R1" \in DOMAIN rooms
        /\ "R1" \in DOMAIN rooms'
        /\ socks[s].roomCode = "R1" \/ socks'[s].roomCode = "R1"
        /\ Request(s))
       => rooms'["R1"].lastActivityAt = Epoch]_vars

\* C37: in a room whose game has been started, whatever its phase, no join-room
\* succeeds, the game stays started, and as long as the room lives its roster
\* never gains a player.
C37_NoJoinAfterStart ==
  [][\A c \in DOMAIN rooms : rooms[c].gameState.gameStarted =>
       /\ \A s \in Sockets : (reply' /\ steps' = steps + 1) => ~JoinRoom(s, c, NameOf(s))
       /\ c \in DOMAIN rooms' =>
            /\ rooms'[c].gameState.gameStarted
            /\ Len(rooms'[c].players) <= Len(rooms[c].players)]_vars
\* a request was refused in a started room that was moved back to the setup
\* phase, while a session that is in no room could have asked to join it
C37_Witness ==
  /\ ~reply
  /\ "R1" \in DOMAIN rooms
  /\ rooms["R1"].gameState.gameStarted
  /\ rooms["R1"].gameState.phase = "setup"
  /\ Len(rooms["R1"].players) < MaxSockets
  /\ \E s \in Sockets : socks[s].roomCode = NoCode /\ ~Has(rooms["R1"].players, s)

\* C38: while a room lives, the wins of every player id that stays in its roster
\* never decrease, they change only in a successful calculate-votes, and a
\* successful rejoin-room puts the old entry's wins under the new id.
C38_WinsNeverDecrease ==
  [][\A c \in DOMAIN rooms \cap DOMAIN rooms' :
       LET ps == rooms[c].players
           ps2 == rooms'[c].players
       IN /\ \A id \in Sockets : (Has(ps, id) /\ Has(ps2, id)) =>
               /\ Get(ps2, id).wins >= Get(ps, id).wins
               /\ Get(ps2, id).wins # Get(ps, id).wins =>
                     \E s \in Sockets : socks[s].roomCode = c /\ CalculateVotes(s)
          /\ \A s, oldPlayerId \in Sockets :
               (reply' /\ steps' = steps + 1 /\ Has(ps, oldPlayerId) /\ RejoinRoom(s, c, oldPlayerId))
               => Has(ps2, s) /\ Get(ps2, s).wins = Get(ps, oldPlayerId).wins]_vars

\* C39: no player id is in the roster of two live rooms at once, and no session
\* is the host of a room other than the one it is bound to.
C39_OneRoomPerPlayer ==
  \A c, d \in DOMAIN rooms : \A id \in Sockets :
     /\ (Has(rooms[c].players, id) /\ Has(rooms[d].players, id)) => c = d
     /\ (rooms[c].hostId = id /\ socks[id].roomCode \in DOMAIN rooms) => socks[id].roomCode = c


====
